---- MODULE Spec2Model ----
(***************************************************************************)
(* Tutoring state machine and quiz grading of quill-bot: the tRPC          *)
(* procedures getLearningState, submitQuizAnswers, updateLearningPhase and *)
(* completeTopic over the LearningState, StudentProgress, QuizQuestion and *)
(* QuizAttempt tables.                                                     *)
(***************************************************************************)
EXTENDS Integers, Sequences, FiniteSets, TLC

(***************************************************************************)
(* Bounds of the model.                                                    *)
(***************************************************************************)
\* chapters of the document (Chapter rows 1..NumChapters)
NumChapters == 2
\* topics of chapter 1; chapter c has MaxTopics + 1 - c topics (never < 0)
MaxTopics == 2
\* cap on messageCount increments
MaxMessages == 2
\* cap on QuizAttempt rows
MaxAttempts == 2
\* cap on the clock: the number of procedure calls of a run
MaxClock == 3
\* clients with one request in flight each
NumClients == 2
\* lines of a text given to the chapter extractor
MaxLines == 3
\* largest number printed in a text (chapter numbers, pages of the contents)
MaxNumber == 3
\* lines of a text that is a table of contents only
MaxContentsLines == 6
\* answers in a sheet posted without the quiz dialog, and the question ids it uses
MaxAnswers == 6
MaxQuestionIds == 2

(***************************************************************************)
(* Program constants.                                                      *)
(***************************************************************************)
\* const passed = score >= 6
PassThreshold == 6
\* generateQuiz({ ..., count: 10 })
QuizSize == 10
\* this.pageBreaks.length > 30 ? this.pageBreaks[30] : this.pdfText.length
TocScanPages == 30
\* introText.substring(tocStartIndex, tocStartIndex + 8000)
TocScanChars == 8000
\* lines.length < 5 && tocContentSpec.length > 200
BlobMaxLines == 5
BlobMinChars == 200
\* chapters.length > 2, blobChapters.length > 2
TocMinChapters == 2
\* /^Glossary|^Index|^Appendix/i.test(trimmed) && chapters.length > 3
EndMarkerChapters == 3
\* chapters.length > 5 && consecutiveMisses > 25
TocMissChapters == 5
TocMissLimit == 25
\* Math.min(chapter.startIndex + 1000, pageTextEnd)
TitleSearchChars == 1000
\* line.length < 4 || line.length > 100
TrivialChars == 4
LongLineChars == 100
\* prev.length < 5, next.length < 5
IsolatedChars == 5

SessionKeys == {"s1"}
FileIds == {"f1"}

Phases == {"introduction", "learning", "review", "quiz-ready"}
\* input.phase is z.string(): any string the client sends
PhaseInputs == Phases \cup {"done"}

Undefined == "undefined"
OptionTexts == <<"A", "B", "C", "D">>
TopicTitles == <<"lift", "drag", "General">>

(***************************************************************************)
(* Stored rows the procedures read: Chapter (with its topics) and          *)
(* QuizQuestion.                                                           *)
(***************************************************************************)
ChapterExists(c) == c \in 1..NumChapters

TopicCount(c) == IF MaxTopics + 1 - c > 0 THEN MaxTopics + 1 - c ELSE 0

QuestionId(c, i) == <<c, i>>

UnknownQuestionId == <<0, 0>>

QuizQuestion(c, i) ==
    [id            |-> QuestionId(c, i),
     chapterNumber |-> c,
     correctAnswer |-> OptionTexts[((i - 1) % Len(OptionTexts)) + 1],
     topicCovered  |-> TopicTitles[((i - 1) % Len(TopicTitles)) + 1]]

\* all QuizQuestion rows of the file, in creation order
QuizQuestions ==
    [n \in 1..(NumChapters * QuizSize) |->
        QuizQuestion(((n - 1) \div QuizSize) + 1, ((n - 1) % QuizSize) + 1)]

WrongOption(text) == IF text = OptionTexts[1] THEN OptionTexts[2] ELSE OptionTexts[1]

(***************************************************************************)
(* Grading (submitQuizAnswers, the part before the writes).                *)
(***************************************************************************)
AnswerIds(answers) == {answers[i].questionId : i \in 1..Len(answers)}

\* the lookup without the chapterNumber filter
FindQuestionsOfAnyChapter(chapterNumber, answers) ==
    SelectSeq(QuizQuestions, LAMBDA q : q.id \in AnswerIds(answers))

\* db.quizQuestion.findMany({ where: { fileId, chapterNumber, id: { in } } })
FindQuestions(chapterNumber, answers) ==
    SelectSeq(QuizQuestions,
              LAMBDA q : q.chapterNumber = chapterNumber /\ q.id \in AnswerIds(answers))

\* questions.find(q => q.id === answer.questionId)
FindQuestion(questions, questionId) ==
    IF \E i \in 1..Len(questions) : questions[i].id = questionId
    THEN LET i == CHOOSE i \in 1..Len(questions) :
                     /\ questions[i].id = questionId
                     /\ \A j \in 1..(i - 1) : questions[j].id # questionId
         IN  [found |-> TRUE, correctAnswer |-> questions[i].correctAnswer,
              topicCovered |-> questions[i].topicCovered]
    ELSE [found |-> FALSE, correctAnswer |-> Undefined, topicCovered |-> Undefined]

GradeAnswer(questions, answer) ==
    LET question == FindQuestion(questions, answer.questionId)
    IN  [questionId     |-> answer.questionId,
         selectedAnswer |-> answer.selectedAnswer,
         correctAnswer  |-> question.correctAnswer,
         \* undefined === a string is false
         isCorrect      |-> question.found /\ question.correctAnswer = answer.selectedAnswer,
         topicCovered   |-> question.topicCovered]

GradedAnswers(chapterNumber, answers) ==
    LET questions == FindQuestions(chapterNumber, answers)
    IN  [i \in 1..Len(answers) |-> GradeAnswer(questions, answers[i])]

Score(gradedAnswers) == Len(SelectSeq(gradedAnswers, LAMBDA a : a.isCorrect))

\* the pass mark taken as exclusive
PassedStrictly(score) == score > PassThreshold

Passed(score) == score >= PassThreshold

\* self.indexOf(topic), 1-based; 0 when absent
IndexOf(self, x) ==
    IF \E i \in 1..Len(self) : self[i] = x
    THEN CHOOSE i \in 1..Len(self) : self[i] = x /\ \A j \in 1..(i - 1) : self[j] # x
    ELSE 0

RECURSIVE KeepFirstOccurrences(_, _)
\* .filter((topic, index, self) => topic && self.indexOf(topic) === index)
KeepFirstOccurrences(self, index) ==
    IF index > Len(self) THEN <<>>
    ELSE LET rest == KeepFirstOccurrences(self, index + 1)
         IN  IF self[index] # Undefined /\ self[index] # "" /\ IndexOf(self, self[index]) = index
             THEN <<self[index]>> \o rest
             ELSE rest

\* the topics of all answers, the correct ones included
WeakTopicsOfAllAnswers(gradedAnswers) ==
    KeepFirstOccurrences([i \in 1..Len(gradedAnswers) |-> gradedAnswers[i].topicCovered], 1)

WeakTopics(gradedAnswers) ==
    LET wrong  == SelectSeq(gradedAnswers, LAMBDA a : ~a.isCorrect)
        topics == [i \in 1..Len(wrong) |-> wrong[i].topicCovered]
    IN  KeepFirstOccurrences(topics, 1)

Grade(chapterNumber, answers) ==
    LET gradedAnswers == GradedAnswers(chapterNumber, answers)
        score         == Score(gradedAnswers)
    IN  [score          |-> score,
         totalQuestions |-> Len(answers),
         passed         |-> Passed(score),
         weakTopics     |-> WeakTopics(gradedAnswers),
         gradedAnswers  |-> gradedAnswers]

(***************************************************************************)
(* State: the LearningState table (keyed by sessionKey), the               *)
(* StudentProgress table (keyed by fileId), the QuizAttempt table          *)
(* (append-only), the answers the quiz dialog has collected so far, the    *)
(* clock that new Date() reads, a record of the last procedure call, and   *)
(* the requests in flight (one per client) when requests run concurrently. *)
(* extractor is the ChapterExtractor with the text it was given and the    *)
(* chapters it returned.                                                   *)
(***************************************************************************)
VARIABLES learningState, studentProgress, quizAttempt, sheet, clock, last, calls,
          extractor

vars == <<learningState, studentProgress, quizAttempt, sheet, clock, last, calls,
          extractor>>

\* every call takes place at a later time than the one before
Tick == clock < MaxClock /\ clock' = clock + 1

NoInput == [chapterNumber |-> 0, topicNumber |-> 0, phase |-> "",
            incrementMessageCount |-> FALSE, answers |-> <<>>]

NoResult == [score |-> 0, totalQuestions |-> 0, passed |-> FALSE,
             weakTopics |-> <<>>, gradedAnswers |-> <<>>]

Clients == 1..NumClients

\* private pdfText: string = ''; private pageBreaks: number[] = []
NewExtractor == [pdfText |-> <<>>, pageBreaks |-> <<>>, toc |-> <<>>,
                 chapters |-> <<>>, extracted |-> FALSE]

\* a client with no request in flight
IdleCall == [pc |-> "idle", op |-> "none", fileId |-> "", sessionKey |-> "",
             input |-> NoInput, result |-> NoResult, found |-> FALSE,
             messageCount |-> 0, completedTopics |-> {}, attempt |-> 0,
             overwrote |-> 0, applied |-> "none", threw |-> FALSE]

\* last call: procedure, session, input, the LearningState table before the
\* call, the grading result (submitQuizAnswers) and whether the call threw
Call(op, sessionKey, input, result, threw) ==
    [op |-> op, sessionKey |-> sessionKey, input |-> input,
     pre |-> learningState,
     result |-> [result EXCEPT !.gradedAnswers = <<>>], threw |-> threw]

\* client-side inputs
ChapterInputs == 1..(NumChapters + 1)

TopicInputs == 1..(MaxTopics + 1)

\* an answer sheet for chapter c: one answer per question, the first k correct
AnswersWithCorrect(c, k) ==
    [i \in 1..QuizSize |->
        [questionId     |-> QuestionId(c, i),
         selectedAnswer |-> IF i <= k THEN QuizQuestion(c, i).correctAnswer
                            ELSE WrongOption(QuizQuestion(c, i).correctAnswer)]]

\* sheets just below and just at the pass mark
CorrectCounts == {PassThreshold - 1, PassThreshold}

AnswerSheets(c) == {AnswersWithCorrect(c, k) : k \in CorrectCounts}

Init ==
    /\ learningState = <<>>
    /\ studentProgress = <<>>
    /\ quizAttempt = <<>>
    /\ sheet = <<>>
    /\ clock = 0
    /\ last = [op |-> "init", sessionKey |-> "", input |-> NoInput,
               pre |-> <<>>, result |-> NoResult, threw |-> FALSE]
    /\ calls = [p \in Clients |-> IdleCall]
    /\ extractor = NewExtractor

(***************************************************************************)
(* Table operations (Prisma).                                              *)
(***************************************************************************)
\* db.learningState.create
CreateRow(table, key, row) == [k \in DOMAIN table \cup {key} |-> IF k = key THEN row ELSE table[k]]

\* updateMany: rows matching the key are updated, none is created
UpdateMany(table, key, row) == IF key \in DOMAIN table THEN [table EXCEPT ![key] = row] ELSE table

(***************************************************************************)
(* getLearningState                                                        *)
(***************************************************************************)
\* the new state always started fresh, StudentProgress not consulted
NewLearningStateAlwaysFresh(fileId, sessionKey, now) ==
    [fileId            |-> fileId,
     sessionKey        |-> sessionKey,
     currentChapter    |-> 1,
     currentTopic      |-> 1,
     learningPhase     |-> "introduction",
     messageCount      |-> 0,
     lastInteraction   |-> now,
     chaptersCompleted |-> <<>>,
     quizzesPassed     |-> <<>>,
     needsReview       |-> FALSE,
     reviewTopics      |-> <<>>]

NewLearningState(fileId, sessionKey, now) ==
    LET recovered == fileId \in DOMAIN studentProgress
    IN  [fileId            |-> fileId,
         sessionKey        |-> sessionKey,
         currentChapter    |-> IF recovered THEN studentProgress[fileId].currentChapter ELSE 1,
         currentTopic      |-> IF recovered THEN studentProgress[fileId].currentTopic ELSE 1,
         learningPhase     |-> IF recovered THEN "learning" ELSE "introduction",
         messageCount      |-> 0,
         lastInteraction   |-> now,
         chaptersCompleted |-> <<>>,
         quizzesPassed     |-> <<>>,
         needsReview       |-> FALSE,
         reviewTopics      |-> <<>>]

\* the handler, run at time now
GetLearningStateAt(fileId, sessionKey, now) ==
    /\ learningState' =
         IF sessionKey \in DOMAIN learningState THEN learningState
         ELSE CreateRow(learningState, sessionKey, NewLearningState(fileId, sessionKey, now))
    /\ last' = Call("getLearningState", sessionKey, NoInput, NoResult, FALSE)
    /\ UNCHANGED <<studentProgress, quizAttempt, sheet, calls, extractor>>

GetLearningState(fileId, sessionKey) ==
    /\ Tick
    /\ GetLearningStateAt(fileId, sessionKey, clock')

(***************************************************************************)
(* submitQuizAnswers                                                       *)
(***************************************************************************)
\* the pass update without the push to quizzesPassed
PassUpdateWithoutQuizzesPassed(state, chapterNumber) ==
    [state EXCEPT !.chaptersCompleted = Append(@, chapterNumber),
                  !.currentChapter    = chapterNumber + 1,
                  !.currentTopic      = 1,
                  !.learningPhase     = "introduction",
                  !.needsReview       = FALSE,
                  !.messageCount      = 0]

\* the pass update clearing needsReview and messageCount only out of quiz-ready
PassUpdateByPhase(state, chapterNumber) ==
    [state EXCEPT !.chaptersCompleted = Append(@, chapterNumber),
                  !.quizzesPassed     = Append(@, chapterNumber),
                  !.currentChapter    = chapterNumber + 1,
                  !.currentTopic      = 1,
                  !.learningPhase     = "introduction",
                  !.needsReview       = IF state.learningPhase = "quiz-ready" THEN FALSE ELSE @,
                  !.messageCount      = IF state.learningPhase = "quiz-ready" THEN 0 ELSE @]

\* the pass update moving the session two chapters on
PassUpdateSkippingChapter(state, chapterNumber) ==
    [state EXCEPT !.chaptersCompleted = Append(@, chapterNumber),
                  !.quizzesPassed     = Append(@, chapterNumber),
                  !.currentChapter    = chapterNumber + 2,
                  !.currentTopic      = 1,
                  !.learningPhase     = "introduction",
                  !.needsReview       = FALSE,
                  !.messageCount      = 0]

PassUpdate(state, chapterNumber) ==
    [state EXCEPT !.chaptersCompleted = Append(@, chapterNumber),
                  !.quizzesPassed     = Append(@, chapterNumber),
                  !.currentChapter    = chapterNumber + 1,
                  !.currentTopic      = 1,
                  !.learningPhase     = "introduction",
                  !.needsReview       = FALSE,
                  !.messageCount      = 0]

\* the fail update sending the student back to the chapter's first topic
FailUpdateResettingTopic(state, weakTopics) ==
    [state EXCEPT !.learningPhase = "review",
                  !.needsReview   = TRUE,
                  !.reviewTopics  = weakTopics,
                  !.currentTopic  = 1]

FailUpdate(state, weakTopics) ==
    [state EXCEPT !.learningPhase = "review",
                  !.needsReview   = TRUE,
                  !.reviewTopics  = weakTopics]

PassProgressUpdate(progress, chapterNumber) ==
    [progress EXCEPT !.currentChapter = chapterNumber + 1,
                     !.currentTopic   = 1]

AttemptRow(fileId, chapterNumber, sessionKey, result) ==
    [fileId         |-> fileId,
     chapterNumber  |-> chapterNumber,
     sessionKey     |-> sessionKey,
     score          |-> result.score,
     totalQuestions |-> result.totalQuestions,
     answers        |-> result.gradedAnswers,
     weakTopics     |-> result.weakTopics,
     passed         |-> result.passed]

\* the handler after the grading, which gave result; its updates store no
\* time of their own
SubmitQuizAnswersGraded(fileId, chapterNumber, sessionKey, answers, result) ==
    LET found  == sessionKey \in DOMAIN learningState
        input  == [NoInput EXCEPT !.chapterNumber = chapterNumber, !.answers = answers]
    IN  /\ quizAttempt' = Append(quizAttempt, AttemptRow(fileId, chapterNumber, sessionKey, result))
        /\ IF ~found
           THEN \* learningState.update rejects: no row for the session key
                UNCHANGED <<learningState, studentProgress>>
           ELSE IF result.passed
           THEN /\ learningState' =
                      [learningState EXCEPT ![sessionKey] = PassUpdate(@, chapterNumber)]
                /\ studentProgress' =
                      IF fileId \in DOMAIN studentProgress
                      THEN UpdateMany(studentProgress, fileId,
                                      PassProgressUpdate(studentProgress[fileId], chapterNumber))
                      ELSE studentProgress
           ELSE /\ learningState' =
                      [learningState EXCEPT ![sessionKey] = FailUpdate(@, result.weakTopics)]
                /\ UNCHANGED studentProgress
        /\ last' = Call("submitQuizAnswers", sessionKey, input, result, ~found)
        /\ UNCHANGED <<sheet, calls, extractor>>

SubmitQuizAnswersAt(fileId, chapterNumber, sessionKey, answers) ==
    SubmitQuizAnswersGraded(fileId, chapterNumber, sessionKey, answers,
                            Grade(chapterNumber, answers))

SubmitQuizAnswers(fileId, chapterNumber, sessionKey, answers) ==
    /\ Tick
    /\ Len(quizAttempt) < MaxAttempts
    /\ SubmitQuizAnswersAt(fileId, chapterNumber, sessionKey, answers)

(***************************************************************************)
(* updateLearningPhase                                                     *)
(***************************************************************************)
\* (state?.messageCount || 0) + 1
NextMessageCount(table, sessionKey) ==
    (IF sessionKey \in DOMAIN table THEN table[sessionKey].messageCount ELSE 0) + 1

PhaseUpdate(state, phase, incrementMessageCount, messageCount, now) ==
    IF incrementMessageCount
    THEN [state EXCEPT !.learningPhase = phase, !.lastInteraction = now,
                       !.messageCount = messageCount]
    ELSE [state EXCEPT !.learningPhase = phase, !.lastInteraction = now]

\* the handler, run at time now
UpdateLearningPhaseAt(sessionKey, phase, incrementMessageCount, now) ==
    LET found == sessionKey \in DOMAIN learningState
        input == [NoInput EXCEPT !.phase = phase,
                                 !.incrementMessageCount = incrementMessageCount]
    IN  /\ incrementMessageCount => NextMessageCount(learningState, sessionKey) <= MaxMessages
        /\ learningState' =
             IF found
             THEN [learningState EXCEPT ![sessionKey] =
                      PhaseUpdate(@, phase, incrementMessageCount,
                                  NextMessageCount(learningState, sessionKey), now)]
             ELSE learningState
        /\ last' = Call("updateLearningPhase", sessionKey, input, NoResult, ~found)
        /\ UNCHANGED <<studentProgress, quizAttempt, sheet, calls, extractor>>

UpdateLearningPhase(sessionKey, phase, incrementMessageCount) ==
    /\ Tick
    /\ UpdateLearningPhaseAt(sessionKey, phase, incrementMessageCount, clock')

(***************************************************************************)
(* completeTopic                                                           *)
(***************************************************************************)
TopicIdentifier(chapterNumber, topicNumber) == <<chapterNumber, topicNumber>>

\* step 1: StudentProgress is updated, or created when the file has none
ProgressAfterTopic(fileId, chapterNumber, topicNumber, now) ==
    IF fileId \in DOMAIN studentProgress
    THEN [studentProgress EXCEPT ![fileId] =
            [@ EXCEPT !.completedTopics = @ \cup {TopicIdentifier(chapterNumber, topicNumber)},
                      !.lastInteraction = now,
                      !.currentChapter  = chapterNumber,
                      !.currentTopic    = topicNumber + 1]]
    ELSE CreateRow(studentProgress, fileId,
            [completedTopics |-> {TopicIdentifier(chapterNumber, topicNumber)},
             lastInteraction |-> now,
             currentChapter  |-> chapterNumber,
             currentTopic    |-> topicNumber + 1])

\* the last-topic test with > in place of >=
IsLastTopicStrict(chapterNumber, topicNumber) ==
    /\ ChapterExists(chapterNumber)
    /\ TopicCount(chapterNumber) > 0
    /\ topicNumber > TopicCount(chapterNumber)

\* if (chapter) { if (totalTopics > 0 && topicNumber >= totalTopics) ... }
IsLastTopic(chapterNumber, topicNumber) ==
    /\ ChapterExists(chapterNumber)
    /\ TopicCount(chapterNumber) > 0
    /\ topicNumber >= TopicCount(chapterNumber)

\* the quiz-ready update unlocking the next chapter without a quiz
QuizReadyUpdateUnlocking(state, now) ==
    [state EXCEPT !.learningPhase = "quiz-ready", !.messageCount = 0,
                  !.currentChapter = @ + 1, !.lastInteraction = now]

QuizReadyUpdate(state, now) ==
    [state EXCEPT !.learningPhase = "quiz-ready", !.messageCount = 0,
                  !.lastInteraction = now]

\* the next-topic update stepping the stored pointer instead of the request's
NextTopicUpdateRelative(state, topicNumber, now) ==
    [state EXCEPT !.currentTopic = @ + 1, !.messageCount = 0,
                  !.lastInteraction = now]

NextTopicUpdate(state, topicNumber, now) ==
    [state EXCEPT !.currentTopic = topicNumber + 1, !.messageCount = 0,
                  !.lastInteraction = now]

\* the handler, run at time now
CompleteTopicAt(fileId, sessionKey, chapterNumber, topicNumber, now) ==
    LET found == sessionKey \in DOMAIN learningState
        input == [NoInput EXCEPT !.chapterNumber = chapterNumber,
                                 !.topicNumber = topicNumber]
    IN  /\ studentProgress' = ProgressAfterTopic(fileId, chapterNumber, topicNumber, now)
        /\ learningState' =
             IF ~found THEN learningState
             ELSE IF IsLastTopic(chapterNumber, topicNumber)
             THEN [learningState EXCEPT ![sessionKey] = QuizReadyUpdate(@, now)]
             ELSE [learningState EXCEPT ![sessionKey] = NextTopicUpdate(@, topicNumber, now)]
        /\ last' = Call("completeTopic", sessionKey, input, NoResult, ~found)
        /\ UNCHANGED <<quizAttempt, sheet, calls, extractor>>

CompleteTopic(fileId, sessionKey, chapterNumber, topicNumber) ==
    /\ Tick
    /\ CompleteTopicAt(fileId, sessionKey, chapterNumber, topicNumber, clock')

(***************************************************************************)
(* The tutoring state machine: any client calls any procedure.             *)
(***************************************************************************)
Next ==
    \/ \E f \in FileIds, s \in SessionKeys : GetLearningState(f, s)
    \/ \E f \in FileIds, s \in SessionKeys, c \in ChapterInputs :
         \E answers \in AnswerSheets(c) : SubmitQuizAnswers(f, c, s, answers)
    \/ \E s \in SessionKeys, p \in PhaseInputs, inc \in BOOLEAN :
         UpdateLearningPhase(s, p, inc)
    \/ \E f \in FileIds, s \in SessionKeys, c \in ChapterInputs, t \in TopicInputs :
         CompleteTopic(f, s, c, t)

Spec == Init /\ [][Next]_vars

(***************************************************************************)
(* The quiz dialog: it is shown once the session's LearningState is        *)
(* loaded, collects one answer per question and submits the sheet.  The    *)
(* answer to a question is right, wrong, or names no stored question (the  *)
(* procedure accepts any questionId string).                               *)
(***************************************************************************)
SheetAnswers(c, i) ==
    LET q == QuizQuestion(c, i)
    IN  {[questionId |-> q.id, selectedAnswer |-> q.correctAnswer],
         [questionId |-> q.id, selectedAnswer |-> WrongOption(q.correctAnswer)],
         [questionId |-> UnknownQuestionId, selectedAnswer |-> q.correctAnswer]}

\* handleAnswer: setAnswers({ ...answers, [question.id]: answer })
HandleAnswer(sessionKey, chapterNumber) ==
    /\ sessionKey \in DOMAIN learningState
    /\ quizAttempt = <<>>
    /\ Len(sheet) < QuizSize
    /\ \E answer \in SheetAnswers(chapterNumber, Len(sheet) + 1) :
         sheet' = Append(sheet, answer)
    /\ UNCHANGED <<learningState, studentProgress, quizAttempt, clock, last, calls, extractor>>

\* handleNext on the last question: submitQuiz({ fileId, chapterNumber, sessionKey, answers })
SubmitSheet(fileId, chapterNumber, sessionKey) ==
    /\ quizAttempt = <<>>
    /\ SubmitQuizAnswers(fileId, chapterNumber, sessionKey, sheet)

NextGrade ==
    \/ \E f \in FileIds, s \in SessionKeys :
         s \notin DOMAIN learningState /\ GetLearningState(f, s)
    \/ \E s \in SessionKeys : HandleAnswer(s, 1)
    \/ \E f \in FileIds, s \in SessionKeys, c \in {1, NumChapters} : SubmitSheet(f, c, s)

SpecGrade == Init /\ [][NextGrade]_vars

(***************************************************************************)
(* Students working through the document with the chat page: the page     *)
(* loads the session's LearningState, the completion button sends the      *)
(* session's own currentChapter and currentTopic, the quiz dialog sends    *)
(* the session's currentChapter, and a tutoring turn stores a phase and    *)
(* counts the message.  Time does not advance between the calls.           *)
(***************************************************************************)
\* the student's session, and the session of a page opened later on the
\* same document
Student == "s1"
Newcomer == "s2"

FailedAttempts == Len(SelectSeq(quizAttempt, LAMBDA row : ~row.passed))

\* Messages: trpc.getLearningState.useQuery({ fileId, sessionKey })
StudyOpen(fileId, sessionKey) ==
    /\ sessionKey \notin DOMAIN learningState
    /\ GetLearningStateAt(fileId, sessionKey, clock)
    /\ UNCHANGED clock

\* a tutoring turn: the phase the message route stores with the counted turn
StudyTurnPhases == {"learning"}

StudyTurn(sessionKey, phase) ==
    /\ sessionKey \in DOMAIN learningState
    /\ UpdateLearningPhaseAt(sessionKey, phase, TRUE, clock)
    /\ UNCHANGED clock

\* TopicCompletionButton (the button, or a completion detected in the
\* tutor's reply): completeTopic({ fileId, sessionKey, chapterNumber:
\* learningState.currentChapter, topicNumber: learningState.currentTopic })
StudyCompleteTopic(fileId, sessionKey) ==
    /\ sessionKey \in DOMAIN learningState
    /\ learningState[sessionKey].currentTopic <= MaxTopics
    /\ CompleteTopicAt(fileId, sessionKey, learningState[sessionKey].currentChapter,
                       learningState[sessionKey].currentTopic, clock)
    /\ UNCHANGED clock

\* what submitQuizAnswers computes for the sheets the students hand in
StudyGrades ==
    [c \in ChapterInputs |->
        [correct \in CorrectCounts |-> Grade(c, AnswersWithCorrect(c, correct))]]

\* the quiz of the session's chapter answered with correct of the QuizSize
\* answers right
StudyQuiz(fileId, sessionKey, correct) ==
    /\ sessionKey \in DOMAIN learningState
    /\ SubmitQuizAnswersGraded(fileId, learningState[sessionKey].currentChapter, sessionKey,
                               AnswersWithCorrect(learningState[sessionKey].currentChapter,
                                                  correct),
                               StudyGrades[learningState[sessionKey].currentChapter][correct])
    /\ UNCHANGED clock

\* a passing quiz: the chapter has stored questions
StudyPass(fileId, sessionKey) ==
    /\ sessionKey \in DOMAIN learningState
    /\ ChapterExists(learningState[sessionKey].currentChapter)
    /\ StudyQuiz(fileId, sessionKey, PassThreshold)

StudyFail(fileId, sessionKey) ==
    /\ FailedAttempts < MaxAttempts
    /\ StudyQuiz(fileId, sessionKey, PassThreshold - 1)

Study(fileId, sessionKey) ==
    \/ StudyOpen(fileId, sessionKey)
    \/ \E phase \in StudyTurnPhases : StudyTurn(sessionKey, phase)
    \/ StudyCompleteTopic(fileId, sessionKey)
    \/ StudyPass(fileId, sessionKey)
    \/ StudyFail(fileId, sessionKey)

NextStudy == \E f \in FileIds : Study(f, Student) \/ StudyOpen(f, Newcomer)

SpecStudy == Init /\ [][NextStudy]_vars

\* one student alone on the document
NextStudent == \E f \in FileIds : Study(f, Student)

SpecStudent == Init /\ [][NextStudent]_vars

\* the student opens the page and goes on completing topics: each is taken
\* when it stays possible
SpecStudentFair ==
    /\ SpecStudent
    /\ \A f \in FileIds : WF_vars(StudyOpen(f, Student))
    /\ \A f \in FileIds : WF_vars(StudyCompleteTopic(f, Student))

\* a passing quiz is taken when it stays possible
PassingFair == \A f \in FileIds : WF_vars(StudyPass(f, Student))

(***************************************************************************)
(* A client that posts to submitQuizAnswers without the quiz dialog: the   *)
(* input is z.array of { questionId, selectedAnswer }, of any length and   *)
(* with any questionId in any position.                                    *)
(***************************************************************************)
PostedAnswers(c) ==
    UNION {{[questionId |-> QuestionId(c, i),
             selectedAnswer |-> QuizQuestion(c, i).correctAnswer],
            [questionId |-> QuestionId(c, i),
             selectedAnswer |-> WrongOption(QuizQuestion(c, i).correctAnswer)]} :
           i \in 1..MaxQuestionIds}

PostAnswer(sessionKey, chapterNumber) ==
    /\ sessionKey \in DOMAIN learningState
    /\ quizAttempt = <<>>
    /\ Len(sheet) < MaxAnswers
    /\ \E answer \in PostedAnswers(chapterNumber) : sheet' = Append(sheet, answer)
    /\ UNCHANGED <<learningState, studentProgress, quizAttempt, clock, last, calls, extractor>>

NextPosted ==
    \/ \E f \in FileIds, s \in SessionKeys :
         s \notin DOMAIN learningState /\ GetLearningState(f, s)
    \/ \E s \in SessionKeys : PostAnswer(s, 1)
    \/ \E f \in FileIds, s \in SessionKeys : SubmitSheet(f, 1, s)

SpecPosted == Init /\ [][NextPosted]_vars

(***************************************************************************)
(* Concurrent requests.  Every client sends one request; its handler runs  *)
(* one database statement per step (one await of the procedure), so the    *)
(* statements of requests in flight interleave.  A call records what its   *)
(* statements read and wrote: found, messageCount (the count computed from *)
(* the read), completedTopics (the list read), attempt (the position of    *)
(* the QuizAttempt row it created), overwrote (the stored messageCount its *)
(* LearningState update replaced), applied (the update it made) and threw. *)
(***************************************************************************)
Request(op, pc, fileId, sessionKey, input) ==
    [IdleCall EXCEPT !.pc = pc, !.op = op, !.fileId = fileId,
                     !.sessionKey = sessionKey, !.input = input]

\* the following statement of a handler, "done" after its last one
Following(statements, pc) ==
    LET i == CHOOSE k \in 1..Len(statements) : statements[k] = pc
    IN  IF i < Len(statements) THEN statements[i + 1] ELSE "done"

\* the session is in the tutoring phase and has had messageCount turns
TutoredState(fileId, sessionKey, messageCount) ==
    [NewLearningState(fileId, sessionKey, 0) EXCEPT !.learningPhase = "learning",
                                                    !.messageCount = messageCount]

InitConc ==
    /\ studentProgress = <<>>
    /\ quizAttempt = <<>>
    /\ sheet = <<>>
    /\ clock = 0
    /\ last = [op |-> "init", sessionKey |-> "", input |-> NoInput,
               pre |-> <<>>, result |-> NoResult, threw |-> FALSE]
    /\ calls = [p \in Clients |-> IdleCall]
    /\ extractor = NewExtractor
    /\ \/ learningState = <<>>
       \/ \E f \in FileIds, m \in 0..(MaxMessages - 1) :
            learningState = [s \in SessionKeys |-> TutoredState(f, s, m)]

\* getLearningState: findUnique, then (no row) findFirst and create
InvokeGetLearningState(p, fileId, sessionKey) ==
    /\ calls[p].pc = "idle"
    /\ calls' = [calls EXCEPT ![p] =
                    Request("getLearningState", "findState", fileId, sessionKey, NoInput)]
    /\ UNCHANGED <<learningState, studentProgress, quizAttempt, sheet, clock, last, extractor>>

GetFindState(p) ==
    LET call  == calls[p]
        found == call.sessionKey \in DOMAIN learningState
    IN  /\ call.op = "getLearningState" /\ call.pc = "findState"
        /\ calls' = [calls EXCEPT ![p].found = found,
                                  ![p].pc = IF found THEN "done" ELSE "createState"]
        /\ UNCHANGED <<learningState, studentProgress, quizAttempt, sheet, clock, last, extractor>>

\* sessionKey is the unique key of LearningState: a second create is rejected
GetCreateState(p) ==
    LET call == calls[p]
    IN  /\ call.op = "getLearningState" /\ call.pc = "createState"
        /\ IF call.sessionKey \in DOMAIN learningState
           THEN /\ calls' = [calls EXCEPT ![p].threw = TRUE, ![p].pc = "done"]
                /\ UNCHANGED learningState
           ELSE /\ learningState' =
                     CreateRow(learningState, call.sessionKey,
                               NewLearningState(call.fileId, call.sessionKey, clock))
                /\ calls' = [calls EXCEPT ![p].applied = "create", ![p].pc = "done"]
        /\ UNCHANGED <<studentProgress, quizAttempt, sheet, clock, last, extractor>>

\* updateLearningPhase: (incrementMessageCount) findUnique, then update
InvokeUpdateLearningPhase(p, sessionKey, phase, incrementMessageCount) ==
    LET input == [NoInput EXCEPT !.phase = phase,
                                 !.incrementMessageCount = incrementMessageCount]
    IN  /\ calls[p].pc = "idle"
        /\ calls' = [calls EXCEPT ![p] =
                        Request("updateLearningPhase",
                                IF incrementMessageCount THEN "findCount" ELSE "updateState",
                                "", sessionKey, input)]
        /\ UNCHANGED <<learningState, studentProgress, quizAttempt, sheet, clock, last, extractor>>

UpdateFindCount(p) ==
    LET call == calls[p]
    IN  /\ call.op = "updateLearningPhase" /\ call.pc = "findCount"
        /\ calls' = [calls EXCEPT
                        ![p].found = call.sessionKey \in DOMAIN learningState,
                        ![p].messageCount = NextMessageCount(learningState, call.sessionKey),
                        ![p].pc = "updateState"]
        /\ UNCHANGED <<learningState, studentProgress, quizAttempt, sheet, clock, last, extractor>>

UpdateWriteState(p) ==
    LET call == calls[p]
        s    == call.sessionKey
    IN  /\ call.op = "updateLearningPhase" /\ call.pc = "updateState"
        /\ IF s \in DOMAIN learningState
           THEN /\ learningState' =
                     [learningState EXCEPT ![s] =
                         PhaseUpdate(@, call.input.phase, call.input.incrementMessageCount,
                                     call.messageCount, clock)]
                /\ calls' = [calls EXCEPT ![p].overwrote = learningState[s].messageCount,
                                          ![p].applied = "phase", ![p].pc = "done"]
           ELSE /\ calls' = [calls EXCEPT ![p].threw = TRUE, ![p].pc = "done"]
                /\ UNCHANGED learningState
        /\ UNCHANGED <<studentProgress, quizAttempt, sheet, clock, last, extractor>>

\* completeTopic: the button sends the pointer of the LearningState it shows
InvokeCompleteTopic(p, fileId, sessionKey) ==
    /\ calls[p].pc = "idle"
    /\ sessionKey \in DOMAIN learningState
    /\ LET state == learningState[sessionKey]
           input == [NoInput EXCEPT !.chapterNumber = state.currentChapter,
                                    !.topicNumber = state.currentTopic]
       IN  calls' = [calls EXCEPT ![p] =
                        Request("completeTopic", "findProgress", fileId, sessionKey, input)]
    /\ UNCHANGED <<learningState, studentProgress, quizAttempt, sheet, clock, last, extractor>>

CompleteFindProgress(p) ==
    LET call  == calls[p]
        found == call.fileId \in DOMAIN studentProgress
    IN  /\ call.op = "completeTopic" /\ call.pc = "findProgress"
        /\ calls' = [calls EXCEPT
                        ![p].found = found,
                        ![p].completedTopics =
                            IF found THEN studentProgress[call.fileId].completedTopics ELSE {},
                        ![p].pc = "writeProgress"]
        /\ UNCHANGED <<learningState, studentProgress, quizAttempt, sheet, clock, last, extractor>>

\* update with the list that was read, or create (fileId is the unique key)
CompleteWriteProgress(p) ==
    LET call == calls[p]
        c    == call.input.chapterNumber
        t    == call.input.topicNumber
        row  == [completedTopics |-> call.completedTopics \cup {TopicIdentifier(c, t)},
                 lastInteraction |-> clock,
                 currentChapter  |-> c,
                 currentTopic    |-> t + 1]
    IN  /\ call.op = "completeTopic" /\ call.pc = "writeProgress"
        /\ IF ~call.found /\ call.fileId \in DOMAIN studentProgress
           THEN /\ calls' = [calls EXCEPT ![p].threw = TRUE, ![p].pc = "done"]
                /\ UNCHANGED studentProgress
           ELSE /\ studentProgress' = CreateRow(studentProgress, call.fileId, row)
                /\ calls' = [calls EXCEPT ![p].pc = "updateState"]
        /\ UNCHANGED <<learningState, quizAttempt, sheet, clock, last, extractor>>

CompleteWriteState(p) ==
    LET call == calls[p]
        s    == call.sessionKey
        c    == call.input.chapterNumber
        t    == call.input.topicNumber
    IN  /\ call.op = "completeTopic" /\ call.pc = "updateState"
        /\ IF s \in DOMAIN learningState
           THEN /\ learningState' =
                     [learningState EXCEPT ![s] =
                         IF IsLastTopic(c, t) THEN QuizReadyUpdate(@, clock)
                         ELSE NextTopicUpdate(@, t, clock)]
                /\ calls' = [calls EXCEPT
                                ![p].overwrote = learningState[s].messageCount,
                                ![p].applied = IF IsLastTopic(c, t) THEN "quiz-ready"
                                               ELSE "next-topic",
                                ![p].pc = "done"]
           ELSE /\ calls' = [calls EXCEPT ![p].threw = TRUE, ![p].pc = "done"]
                /\ UNCHANGED learningState
        /\ UNCHANGED <<studentProgress, quizAttempt, sheet, clock, last, extractor>>

\* submitQuizAnswers with the LearningState update ahead of quizAttempt.create
SubmitStatementsStateFirst == <<"updateState", "createAttempt", "updateProgress">>

\* submitQuizAnswers after grading: quizAttempt.create, learningState.update,
\* (passed) studentProgress.updateMany
SubmitStatements == <<"createAttempt", "updateState", "updateProgress">>

\* the statement after pc; a failed quiz has no studentProgress.updateMany
SubmitFollowing(pc, passed) ==
    LET following == Following(SubmitStatements, pc)
    IN  IF following = "updateProgress" /\ ~passed THEN "done" ELSE following

\* the quiz dialog sends the chapter of the LearningState it shows; a client
\* without one sends chapter 1.  The answers are graded before the first
\* statement that writes.
InvokeSubmitQuizAnswers(p, fileId, sessionKey) ==
    LET c == IF sessionKey \in DOMAIN learningState
             THEN learningState[sessionKey].currentChapter ELSE 1
    IN  /\ calls[p].pc = "idle"
        /\ \E answers \in AnswerSheets(c) :
             LET input == [NoInput EXCEPT !.chapterNumber = c, !.answers = answers]
                 call  == Request("submitQuizAnswers", SubmitStatements[1],
                                  fileId, sessionKey, input)
             IN  calls' = [calls EXCEPT ![p] = [call EXCEPT !.result = Grade(c, answers)]]
        /\ UNCHANGED <<learningState, studentProgress, quizAttempt, sheet, clock, last, extractor>>

SubmitCreateAttempt(p) ==
    LET call == calls[p]
        c    == call.input.chapterNumber
    IN  /\ call.op = "submitQuizAnswers" /\ call.pc = "createAttempt"
        /\ quizAttempt' =
             Append(quizAttempt,
                    AttemptRow(call.fileId, c, call.sessionKey, call.result))
        /\ calls' = [calls EXCEPT ![p].attempt = Len(quizAttempt) + 1,
                                  ![p].pc = SubmitFollowing(call.pc, call.result.passed)]
        /\ UNCHANGED <<learningState, studentProgress, sheet, clock, last, extractor>>

\* learningState.update rejects when the session key has no row
SubmitWriteState(p) ==
    LET call == calls[p]
        s    == call.sessionKey
        c    == call.input.chapterNumber
    IN  /\ call.op = "submitQuizAnswers" /\ call.pc = "updateState"
        /\ IF s \in DOMAIN learningState
           THEN /\ learningState' =
                     [learningState EXCEPT ![s] =
                         IF call.result.passed THEN PassUpdate(@, c)
                         ELSE FailUpdate(@, call.result.weakTopics)]
                /\ calls' = [calls EXCEPT
                                ![p].overwrote = learningState[s].messageCount,
                                ![p].applied = IF call.result.passed THEN "pass" ELSE "fail",
                                ![p].pc = SubmitFollowing(call.pc, call.result.passed)]
           ELSE /\ calls' = [calls EXCEPT ![p].threw = TRUE, ![p].pc = "done"]
                /\ UNCHANGED learningState
        /\ UNCHANGED <<studentProgress, quizAttempt, sheet, clock, last, extractor>>

SubmitWriteProgress(p) ==
    LET call == calls[p]
        f    == call.fileId
    IN  /\ call.op = "submitQuizAnswers" /\ call.pc = "updateProgress"
        /\ studentProgress' =
             IF f \in DOMAIN studentProgress
             THEN UpdateMany(studentProgress, f,
                             PassProgressUpdate(studentProgress[f], call.input.chapterNumber))
             ELSE studentProgress
        /\ calls' = [calls EXCEPT ![p].pc = SubmitFollowing(call.pc, call.result.passed)]
        /\ UNCHANGED <<learningState, quizAttempt, sheet, clock, last, extractor>>

\* tutoring turns: the phase stays "learning" and the turn is counted
TurnPhases == {"learning"}

Invoke(p) ==
    \/ \E f \in FileIds, s \in SessionKeys : InvokeGetLearningState(p, f, s)
    \/ \E s \in SessionKeys, phase \in TurnPhases :
         InvokeUpdateLearningPhase(p, s, phase, TRUE)
    \/ \E f \in FileIds, s \in SessionKeys : InvokeCompleteTopic(p, f, s)
    \/ \E f \in FileIds, s \in SessionKeys : InvokeSubmitQuizAnswers(p, f, s)

\* the next statement of the request of client p
Step(p) ==
    \/ GetFindState(p)
    \/ GetCreateState(p)
    \/ UpdateFindCount(p)
    \/ UpdateWriteState(p)
    \/ CompleteFindProgress(p)
    \/ CompleteWriteProgress(p)
    \/ CompleteWriteState(p)
    \/ SubmitCreateAttempt(p)
    \/ SubmitWriteState(p)
    \/ SubmitWriteProgress(p)

NextConc == \E p \in Clients : Invoke(p) \/ Step(p)

SpecConc == InitConc /\ [][NextConc]_vars

\* a request in flight runs to its end
SpecConcFair == SpecConc /\ \A p \in Clients : WF_vars(Step(p))

(***************************************************************************)
(* ChapterExtractor.  The text is a sequence of lines, each followed by    *)
(* "\n"; a line is an ordinary sentence, a form feed, an OCR page marker,  *)
(* a table-of-contents header, a table-of-contents entry with dot leaders, *)
(* a table of contents printed on one line ("blob"), a chapter heading or  *)
(* an end-of-contents marker.  Offsets count characters.                   *)
(***************************************************************************)
FillerText == "The aeroplane climbs at a steady rate"
FormFeed == "\f"
PageMarker == "--- Page 1 ---"
TocHeader == "Contents"
EndMarker == "Glossary"
Leaders == " ..... "
HeadingWord == "Chapter "
Titles == <<"Preface", "Lift", "Drag", "Stall", "Trim", "Spin">>
BlobTitle == "Principles of flight and the handling of light aircraft"
\* the title the line patterns take from a one-line table of contents
BlobLineTitle == "Principles of flight ... light aircraft"

TitleOf(n) == IF n + 1 <= Len(Titles) THEN Titles[n + 1] ELSE "Annex"

Digits(n) == IF n < 10 THEN 1 ELSE 2

Line(kind, num, pages) == [kind |-> kind, num |-> num, pages |-> pages]

\* the pages of the entries of the one-line table of contents, out of order
\* and with one below and one above every page of the document
BlobPages == [i \in 1..(MaxNumber + 2) |-> MaxNumber + 2 - i]

BlobLine == Line("blob", 1, BlobPages)

\* the lines a text is made of
Lines ==
    {Line("filler", 0, <<>>), Line("formFeed", 0, <<>>), Line("pageMarker", 0, <<>>),
     Line("tocHeader", 0, <<>>), BlobLine}
    \cup {Line("tocEntry", n, <<n>>) : n \in 0..MaxNumber}
    \cup {Line("heading", n, <<>>) : n \in {1, MaxNumber}}

\* "<num>. <title> ..... <page>"
EntryLength(num, titleLength, page) ==
    Digits(num) + Len(". ") + titleLength + Len(Leaders) + Digits(page)

\* offset of entry i in the one-line table of contents (entries one space apart)
RECURSIVE BlobEntryOffset(_, _)
BlobEntryOffset(pages, i) ==
    IF i = 1 THEN 0
    ELSE BlobEntryOffset(pages, i - 1)
         + EntryLength(i - 1, Len(BlobTitle), pages[i - 1]) + Len(" ")

LineLength(line) ==
    CASE line.kind = "filler"     -> Len(FillerText)
      [] line.kind = "formFeed"   -> Len(FormFeed)
      [] line.kind = "pageMarker" -> Len(PageMarker)
      [] line.kind = "tocHeader"  -> Len(TocHeader)
      [] line.kind = "endMarker"  -> Len(EndMarker)
      [] line.kind = "tocEntry"   -> EntryLength(line.num, Len(TitleOf(line.num)), line.pages[1])
      [] line.kind = "heading"    -> Len(HeadingWord) + Digits(line.num) + Len(": ")
                                     + Len(TitleOf(line.num))
      [] line.kind = "blob"       -> BlobEntryOffset(line.pages, Len(line.pages))
                                     + EntryLength(Len(line.pages), Len(BlobTitle),
                                                   line.pages[Len(line.pages)])

\* line.trim().length: a form feed is white space
TrimmedLength(line) == IF line.kind = "formFeed" THEN 0 ELSE LineLength(line)

\* offset of line k of the text; k = Len(text) + 1 gives the text's length
RECURSIVE Offset(_, _)
Offset(text, k) ==
    IF k = 1 THEN 0 ELSE Offset(text, k - 1) + LineLength(text[k - 1]) + Len("\n")

TextLength(text) == Offset(text, Len(text) + 1)

Min(S) == CHOOSE x \in S : \A y \in S : x <= y

Max(a, b) == IF a >= b THEN a ELSE b

\* the offsets of the lines of a kind, in text order
RECURSIVE OffsetsOfKind(_, _, _)
OffsetsOfKind(text, kind, k) ==
    IF k > Len(text) THEN <<>>
    ELSE (IF text[k].kind = kind THEN <<Offset(text, k)>> ELSE <<>>)
         \o OffsetsOfKind(text, kind, k + 1)

\* findPageBreaks: [0], the OCR markers or else the form feeds, text length
FindPageBreaks(text) ==
    LET ocr == OffsetsOfKind(text, "pageMarker", 1)
    IN  <<0>> \o (IF ocr # <<>> THEN ocr ELSE OffsetsOfKind(text, "formFeed", 1))
        \o <<TextLength(text)>>

\* the fallback returning pageBreaks.length
GetPageNumberPastEnd(pageBreaks, textIndex) ==
    LET hits == {i \in 1..(Len(pageBreaks) - 1) :
                    textIndex >= pageBreaks[i] /\ textIndex < pageBreaks[i + 1]}
    IN  IF hits # {} THEN Min(hits) ELSE Max(1, Len(pageBreaks))

\* getPageNumber; pageBreaks[i] of the code is pageBreaks[i + 1] here
GetPageNumber(pageBreaks, textIndex) ==
    LET hits == {i \in 1..(Len(pageBreaks) - 1) :
                    textIndex >= pageBreaks[i] /\ textIndex < pageBreaks[i + 1]}
    IN  IF hits # {} THEN Min(hits) ELSE Max(1, Len(pageBreaks) - 1)

GetIndexForPage(text, pageBreaks, page) ==
    IF page <= 1 THEN 0
    ELSE IF page >= Len(pageBreaks) THEN TextLength(text)
    ELSE pageBreaks[page]

\* the pages the page index derives from the text
TotalPages(pageBreaks) == Len(pageBreaks) - 1

(***************************************************************************)
(* detectToC                                                               *)
(***************************************************************************)
First30PagesLength(text, pageBreaks) ==
    IF Len(pageBreaks) > TocScanPages THEN pageBreaks[TocScanPages + 1]
    ELSE TextLength(text)

\* the first header line of the intro text, 0 when there is none
TocHeaderLine(text, pageBreaks) ==
    LET found == {k \in 1..Len(text) :
                     /\ text[k].kind = "tocHeader"
                     /\ Offset(text, k) + LineLength(text[k])
                           <= First30PagesLength(text, pageBreaks)}
    IN  IF found = {} THEN 0 ELSE Min(found)

\* the first line after the header that \s*$ of the header pattern does not
\* take (white-space lines after the header belong to the match)
TocFirstLine(text, header) ==
    LET rest == {k \in (header + 1)..Len(text) : TrimmedLength(text[k]) > 0}
    IN  IF rest = {} THEN Len(text) + 1 ELSE Min(rest)

\* tocHeaderMatch.index + tocHeaderMatch[0].length
TocStartIndex(text, pageBreaks, header) ==
    LET first == TocFirstLine(text, header)
        intro == First30PagesLength(text, pageBreaks)
    IN  IF first > Len(text) THEN intro
        ELSE IF Offset(text, first) - Len("\n") <= intro
        THEN Offset(text, first) - Len("\n") ELSE intro

TocEndIndex(text, pageBreaks, header) ==
    LET start == TocStartIndex(text, pageBreaks, header)
        intro == First30PagesLength(text, pageBreaks)
    IN  IF start + TocScanChars < intro THEN start + TocScanChars ELSE intro

\* the lines that lie in tocContentSpec
TocLines(text, pageBreaks, header) ==
    LET first == TocFirstLine(text, header)
        end   == TocEndIndex(text, pageBreaks, header)
        in    == {k \in first..Len(text) : Offset(text, k) + LineLength(text[k]) <= end}
    IN  [i \in 1..Cardinality(in) |-> first + i - 1]

\* tocContentSpec.split('\n').length
TocSplitLength(text, pageBreaks, header) ==
    LET start == TocStartIndex(text, pageBreaks, header)
        end   == TocEndIndex(text, pageBreaks, header)
    IN  Cardinality({k \in 1..Len(text) :
                        /\ start <= Offset(text, k) + LineLength(text[k])
                        /\ Offset(text, k) + LineLength(text[k]) < end}) + 1

\* !isNaN(page) && page <= this.pageBreaks.length && page > 0
ValidPage(pageBreaks, page) == page <= Len(pageBreaks) /\ page > 0

TocChapter(chapterNumber, num, title, page) ==
    [chapterNumber |-> chapterNumber,
     title         |-> <<num, title>>,
     startIndex    |-> -1,
     endIndex      |-> -1,
     startPage     |-> page,
     endPage       |-> -1]

\* what blobPattern captures in a line: (number, title, page) per entry
BlobMatches(line) ==
    CASE line.kind = "tocEntry" -> <<[num |-> line.num, title |-> TitleOf(line.num),
                                      page |-> line.pages[1]]>>
      [] line.kind = "blob"     -> [i \in 1..Len(line.pages) |->
                                      [num |-> i, title |-> BlobTitle, page |-> line.pages[i]]]
      [] OTHER                  -> <<>>

\* blobChapters after the lines from position i of the window are scanned
RECURSIVE BlobChapters(_, _, _, _, _)
BlobChapters(text, pageBreaks, lines, i, blobChapters) ==
    IF i > Len(lines) THEN blobChapters
    ELSE LET RECURSIVE Push(_, _)
             Push(matches, chapters) ==
                 IF matches = <<>> THEN chapters
                 ELSE LET m == Head(matches)
                      IN  Push(Tail(matches),
                               IF ValidPage(pageBreaks, m.page)
                               THEN Append(chapters,
                                           TocChapter(Len(chapters) + 1, m.num, m.title, m.page))
                               ELSE chapters)
         IN  BlobChapters(text, pageBreaks, lines, i + 1,
                          Push(BlobMatches(text[lines[i]]), blobChapters))

\* what the first matching line pattern captures: dot leaders end the line
LineMatches(line) ==
    CASE line.kind = "tocEntry" -> <<[num |-> line.num, title |-> TitleOf(line.num),
                                      page |-> line.pages[1]]>>
      [] line.kind = "blob"     -> <<[num |-> 1, title |-> BlobLineTitle,
                                      page |-> line.pages[Len(line.pages)]]>>
      [] OTHER                  -> <<>>

\* the loop over the lines from position i of the window
RECURSIVE LineChapters(_, _, _, _, _, _)
LineChapters(text, pageBreaks, lines, i, chapters, consecutiveMisses) ==
    IF i > Len(lines) THEN chapters
    ELSE LET line    == text[lines[i]]
             matches == LineMatches(line)
             matched == matches # <<>> /\ ValidPage(pageBreaks, matches[1].page)
         IN  IF TrimmedLength(line) = 0
             THEN LineChapters(text, pageBreaks, lines, i + 1, chapters, consecutiveMisses)
             ELSE IF line.kind = "endMarker" /\ Len(chapters) > EndMarkerChapters
             THEN chapters
             ELSE IF matched
             THEN LineChapters(text, pageBreaks, lines, i + 1,
                               Append(chapters,
                                      TocChapter(Len(chapters) + 1, matches[1].num,
                                                 matches[1].title, matches[1].page)),
                               0)
             ELSE IF Len(chapters) > TocMissChapters /\ consecutiveMisses + 1 > TocMissLimit
             THEN chapters
             ELSE LineChapters(text, pageBreaks, lines, i + 1, chapters, consecutiveMisses + 1)

DetectToC(text, pageBreaks) ==
    LET header == TocHeaderLine(text, pageBreaks)
        lines  == TocLines(text, pageBreaks, header)
        blob   == BlobChapters(text, pageBreaks, lines, 1, <<>>)
        length == TocEndIndex(text, pageBreaks, header) - TocStartIndex(text, pageBreaks, header)
    IN  IF header = 0 THEN <<>>
        ELSE IF /\ TocSplitLength(text, pageBreaks, header) < BlobMaxLines
                /\ length > BlobMinChars
                /\ Len(blob) > TocMinChapters
        THEN blob
        ELSE LineChapters(text, pageBreaks, lines, 1, <<>>, 0)

(***************************************************************************)
(* mapPagesToIndices                                                       *)
(***************************************************************************)
\* chapter.title.replace(/^[\w\d.]+/, '').trim()
CleanTitle(title) == title[Len(title)]

TitleLength(title) ==
    IF title = BlobLineTitle
    THEN LineLength(BlobLine) - Digits(1) - Len(". ") - Len(Leaders)
         - Digits(BlobPages[Len(BlobPages)])
    ELSE Len(title)

\* the offsets in a line at which the title is printed
TitleOffsets(line, title) ==
    CASE line.kind = "tocEntry" /\ TitleOf(line.num) = title ->
           {Digits(line.num) + Len(". ")}
      [] line.kind = "heading" /\ TitleOf(line.num) = title ->
           {Len(HeadingWord) + Digits(line.num) + Len(": ")}
      [] line.kind = "blob" /\ title = BlobTitle ->
           {BlobEntryOffset(line.pages, i) + Digits(i) + Len(". ") : i \in 1..Len(line.pages)}
      [] line.kind = "blob" /\ title = BlobLineTitle ->
           {Digits(1) + Len(". ")}
      [] OTHER -> {}

\* pdfText.substring(from, to).indexOf(title)
TitleIndex(text, from, to, title) ==
    LET at == UNION {{Offset(text, k) + o : o \in TitleOffsets(text[k], title)} :
                        k \in 1..Len(text)}
        in == {a \in at : a >= from /\ a + TitleLength(title) <= to}
    IN  IF in = {} THEN -1 ELSE Min(in) - from

MapPageToIndex(text, pageBreaks, chapter) ==
    LET startIndex  == GetIndexForPage(text, pageBreaks, chapter.startPage)
        pageTextEnd == IF chapter.startPage + 1 <= Len(pageBreaks)
                          /\ pageBreaks[chapter.startPage + 1] # 0
                       THEN pageBreaks[chapter.startPage + 1]
                       ELSE TextLength(text)
        snippetEnd  == IF startIndex + TitleSearchChars < pageTextEnd
                       THEN startIndex + TitleSearchChars ELSE pageTextEnd
        titleIndex  == TitleIndex(text, startIndex, snippetEnd, CleanTitle(chapter.title))
    IN  [chapter EXCEPT !.startIndex =
            IF titleIndex # -1 THEN startIndex + titleIndex ELSE startIndex]

MapPagesToIndices(text, pageBreaks, chapters) ==
    [i \in 1..Len(chapters) |-> MapPageToIndex(text, pageBreaks, chapters[i])]

(***************************************************************************)
(* detectChaptersSmart                                                     *)
(***************************************************************************)
\* pdfText.indexOf(lines[i], currentIndex): the first line with this text
IndexOfLine(text, k, currentIndex) ==
    Min({Offset(text, j) : j \in {j \in 1..Len(text) :
                                     text[j] = text[k] /\ Offset(text, j) >= currentIndex}})

\* no line of the text ends with . , ; or :
EndsSentence(line) == line.kind \in {}

\* no line of the text starts with see, refer to, in, read or shown in
IsReference(line) == line.kind \in {}

IsStrongHeader(text, k) ==
    LET prev == IF k > 1 THEN TrimmedLength(text[k - 1]) ELSE 0
        next == IF k < Len(text) THEN TrimmedLength(text[k + 1]) ELSE 0
        isIsolated == prev < IsolatedChars \/ next < IsolatedChars
    IN  ~IsReference(text[k]) /\ (isIsolated \/ ~EndsSentence(text[k]))

\* sort by a field, keeping the order of chapters that compare equal
RECURSIVE SortByField(_, _)
SortByField(chapters, field) ==
    IF chapters = <<>> THEN <<>>
    ELSE LET sorted == SortByField(SubSeq(chapters, 1, Len(chapters) - 1), field)
             c      == chapters[Len(chapters)]
             n      == Len(sorted)
             k      == IF \E i \in 1..n : sorted[i][field] > c[field]
                       THEN Min({i \in 1..n : sorted[i][field] > c[field]})
                       ELSE n + 1
         IN  SubSeq(sorted, 1, k - 1) \o <<c>> \o SubSeq(sorted, k, n)

\* the loop over the lines from line k
RECURSIVE SmartChapters(_, _, _, _, _)
SmartChapters(text, pageBreaks, k, chapters, currentIndex) ==
    IF k > Len(text) THEN chapters
    ELSE LET line     == text[k]
             index    == IndexOfLine(text, k, currentIndex)
             existing == \E i \in 1..Len(chapters) : chapters[i].chapterNumber = line.num
             chapter  == [chapterNumber |-> line.num,
                          title         |-> <<TitleOf(line.num)>>,
                          startIndex    |-> index,
                          endIndex      |-> -1,
                          startPage     |-> GetPageNumber(pageBreaks, index),
                          endPage       |-> -1]
         IN  IF TrimmedLength(line) < TrivialChars \/ TrimmedLength(line) > LongLineChars
             THEN SmartChapters(text, pageBreaks, k + 1, chapters, index)
             ELSE IF line.kind = "heading" /\ IsStrongHeader(text, k) /\ ~existing
             THEN SmartChapters(text, pageBreaks, k + 1, Append(chapters, chapter), index)
             ELSE SmartChapters(text, pageBreaks, k + 1, chapters, index)

DetectChaptersSmart(text, pageBreaks) ==
    SortByField(SmartChapters(text, pageBreaks, 1, <<>>, 0), "chapterNumber")

(***************************************************************************)
(* finalizeChapters and the two entry points                               *)
(***************************************************************************)
\* finalizeChapters with the end index on the next chapter's first character
FinalizeChaptersOverlapping(text, pageBreaks, chapters) ==
    LET sorted == SortByField(chapters, "startIndex")
        n      == Len(sorted)
    IN  [i \in 1..n |->
           IF i < n
           THEN [sorted[i] EXCEPT
                    !.endIndex = sorted[i + 1].startIndex,
                    !.endPage  = GetPageNumber(pageBreaks, sorted[i + 1].startIndex)]
           ELSE [sorted[i] EXCEPT !.endIndex = TextLength(text),
                                  !.endPage  = Len(pageBreaks) - 1]]

FinalizeChapters(text, pageBreaks, chapters) ==
    LET sorted == SortByField(chapters, "startIndex")
        n      == Len(sorted)
    IN  [i \in 1..n |->
           IF i < n
           THEN [sorted[i] EXCEPT
                    !.endIndex = sorted[i + 1].startIndex - 1,
                    !.endPage  = GetPageNumber(pageBreaks, sorted[i + 1].startIndex - 1)]
           ELSE [sorted[i] EXCEPT !.endIndex = TextLength(text),
                                  !.endPage  = Len(pageBreaks) - 1]]

\* extractChapterContent: the offsets of the text that substring(startIndex,
\* endIndex) copies into the chapter's content; substring swaps its arguments
\* when the first is the larger one
ExtractChapterContent(text, chapter) ==
    LET from == Min({chapter.startIndex, chapter.endIndex})
        to   == Max(chapter.startIndex, chapter.endIndex)
    IN  {o \in 0..(TextLength(text) - 1) : from <= o /\ o < to}

\* the collaborator (PDF parser or OCR worker) hands over the text line by line
ReadLine(line) ==
    /\ ~extractor.extracted
    /\ Len(extractor.pdfText) < MaxLines
    /\ extractor' = [extractor EXCEPT !.pdfText = Append(@, line)]
    /\ UNCHANGED <<learningState, studentProgress, quizAttempt, sheet, clock, last, calls>>

\* extractChaptersFromText / extractChaptersFromPDF on the text read
ExtractChaptersFromText ==
    LET text       == extractor.pdfText
        pageBreaks == FindPageBreaks(text)
        toc        == DetectToC(text, pageBreaks)
        chapters   == IF Len(toc) > TocMinChapters
                      THEN MapPagesToIndices(text, pageBreaks, toc)
                      ELSE DetectChaptersSmart(text, pageBreaks)
    IN  /\ ~extractor.extracted
        /\ extractor' = [pdfText    |-> text,
                         pageBreaks |-> pageBreaks,
                         toc        |-> toc,
                         chapters   |-> FinalizeChapters(text, pageBreaks, chapters),
                         extracted  |-> TRUE]
        /\ UNCHANGED <<learningState, studentProgress, quizAttempt, sheet, clock, last, calls>>

NextChapters ==
    \/ \E line \in Lines : ReadLine(line)
    \/ ExtractChaptersFromText

SpecChapters == Init /\ [][NextChapters]_vars

\* a text that is one table of contents: its header, then entries for page 1
\* and end-of-contents markers in any order
ContentsLines == {Line("tocEntry", 1, <<1>>), Line("endMarker", 0, <<>>)}

ReadContentsLine(line) ==
    /\ ~extractor.extracted
    /\ Len(extractor.pdfText) < MaxContentsLines
    /\ IF extractor.pdfText = <<>> THEN line = Line("tocHeader", 0, <<>>)
       ELSE line \in ContentsLines
    /\ extractor' = [extractor EXCEPT !.pdfText = Append(@, line)]
    /\ UNCHANGED <<learningState, studentProgress, quizAttempt, sheet, clock, last, calls>>

NextContents ==
    \/ \E line \in ContentsLines \cup {Line("tocHeader", 0, <<>>)} : ReadContentsLine(line)
    \/ ExtractChaptersFromText

SpecContents == Init /\ [][NextContents]_vars

(***************************************************************************)
(* Properties.  Pre(s) is the session's LearningState before the last      *)
(* call, Post(s) the one after it.                                         *)
(***************************************************************************)
Pre(s) == last.pre[s]

Post(s) == learningState[s]

\* the last call was procedure op on session s, which had a LearningState
Acted(op, s) ==
    /\ last.op = op
    /\ last.sessionKey = s
    /\ s \in DOMAIN last.pre
    /\ s \in DOMAIN learningState

\* C1: currentChapter of an existing session changes only in a
\* submitQuizAnswers call that was graded passed = true.
C1_ChapterChangesOnlyOnPass ==
    \A s \in SessionKeys :
        (s \in DOMAIN last.pre /\ s \in DOMAIN learningState
            /\ Post(s).currentChapter # Pre(s).currentChapter)
        => (Acted("submitQuizAnswers", s) /\ last.result.passed)

C1_Witness ==
    \E s \in SessionKeys :
        /\ Acted("submitQuizAnswers", s)
        /\ last.result.passed
        /\ Pre(s).learningPhase = "quiz-ready"
        /\ Post(s).currentChapter # Pre(s).currentChapter

\* C2: a passing submitQuizAnswers for chapter c leaves currentChapter = c + 1,
\* currentTopic = 1, phase introduction, needsReview false, messageCount 0,
\* and c appended to chaptersCompleted and to quizzesPassed.
C2_PassTransition ==
    \A s \in SessionKeys :
        (Acted("submitQuizAnswers", s) /\ last.result.passed)
        => LET c == last.input.chapterNumber
           IN  /\ Post(s).currentChapter = c + 1
               /\ Post(s).currentTopic = 1
               /\ Post(s).learningPhase = "introduction"
               /\ Post(s).needsReview = FALSE
               /\ Post(s).messageCount = 0
               /\ Post(s).chaptersCompleted = Pre(s).chaptersCompleted \o <<c>>
               /\ Post(s).quizzesPassed = Pre(s).quizzesPassed \o <<c>>

C2_Witness ==
    \E s \in SessionKeys :
        /\ Acted("submitQuizAnswers", s)
        /\ last.result.passed
        /\ last.input.chapterNumber = 2
        /\ Post(s).currentChapter = 3
        /\ Post(s).quizzesPassed = <<1, 2>>

\* C3 (as claimed): every passing submitQuizAnswers call, whatever chapterNumber
\* it carries, leaves currentChapter = its previous value + 1.
C3_PassAdvancesByOne ==
    \A s \in SessionKeys :
        (Acted("submitQuizAnswers", s) /\ last.result.passed)
        => Post(s).currentChapter = Pre(s).currentChapter + 1

\* C4: a failing submitQuizAnswers sets phase review, needsReview true and
\* reviewTopics to the attempt's weak topics, and leaves currentChapter,
\* currentTopic, chaptersCompleted and quizzesPassed unchanged.
C4_FailTransition ==
    \A s \in SessionKeys :
        (Acted("submitQuizAnswers", s) /\ ~last.result.passed)
        => /\ Post(s).learningPhase = "review"
           /\ Post(s).needsReview = TRUE
           /\ Post(s).reviewTopics = quizAttempt[Len(quizAttempt)].weakTopics
           /\ Post(s).currentChapter = Pre(s).currentChapter
           /\ Post(s).currentTopic = Pre(s).currentTopic
           /\ Post(s).chaptersCompleted = Pre(s).chaptersCompleted
           /\ Post(s).quizzesPassed = Pre(s).quizzesPassed

C4_Witness ==
    \E s \in SessionKeys :
        /\ Acted("submitQuizAnswers", s)
        /\ ~last.result.passed
        /\ Pre(s).currentTopic = 2
        /\ Pre(s).learningPhase # "review"
        /\ Post(s).reviewTopics # <<>>

\* the answers of a sheet that select the stored correct answer of a question
\* of the chapter
CorrectPositions(chapterNumber, answers) ==
    {i \in 1..Len(answers) :
        \E n \in 1..QuizSize :
            /\ ChapterExists(chapterNumber)
            /\ answers[i].questionId = QuestionId(chapterNumber, n)
            /\ answers[i].selectedAnswer = QuizQuestion(chapterNumber, n).correctAnswer}

\* C5: grading sets passed = true exactly when at least 6 answers are correct;
\* of 10 answers, 6 correct pass and 5 correct fail.
C5_PassThreshold ==
    last.op = "submitQuizAnswers"
    => LET correct == Cardinality(CorrectPositions(last.input.chapterNumber, last.input.answers))
       IN  /\ last.result.passed = (correct >= 6)
           /\ quizAttempt[Len(quizAttempt)].passed = (correct >= 6)
           /\ (Len(last.input.answers) = 10 /\ correct = 6) => last.result.passed
           /\ (Len(last.input.answers) = 10 /\ correct = 5) => ~last.result.passed

C5_Witness ==
    /\ last.op = "submitQuizAnswers"
    /\ Len(last.input.answers) = 10
    /\ Cardinality(CorrectPositions(last.input.chapterNumber, last.input.answers)) = 6
    /\ \E i \in 1..10 : last.input.answers[i].questionId = UnknownQuestionId
    /\ last.result.passed

\* C6: completeTopic with topicNumber = the chapter's topic count moves the
\* session to quiz-ready with messageCount 0 and does not move currentTopic
\* (never learning with currentTopic = topic count + 1).
C6_LastTopicQuizReady ==
    \A s \in SessionKeys :
        (/\ Acted("completeTopic", s)
         /\ ChapterExists(last.input.chapterNumber)
         /\ TopicCount(last.input.chapterNumber) >= 1
         /\ last.input.topicNumber = TopicCount(last.input.chapterNumber))
        => /\ Post(s).learningPhase = "quiz-ready"
           /\ Post(s).messageCount = 0
           /\ Post(s).currentTopic = Pre(s).currentTopic
           /\ ~(/\ Post(s).learningPhase = "learning"
                /\ Post(s).currentTopic = TopicCount(last.input.chapterNumber) + 1)

C6_Witness ==
    \E s \in SessionKeys :
        /\ Acted("completeTopic", s)
        /\ last.input.chapterNumber = Pre(s).currentChapter
        /\ last.input.topicNumber = Pre(s).currentTopic
        /\ last.input.topicNumber = TopicCount(last.input.chapterNumber)
        /\ last.input.topicNumber >= 2
        /\ Pre(s).learningPhase # "quiz-ready"
        /\ Post(s).learningPhase = "quiz-ready"

\* C7 (as claimed): a completion of a topic that is not the chapter's last
\* advances currentTopic by exactly 1, keeps phase learning and resets
\* messageCount; no completeTopic call moves currentTopic forward by more than
\* one or reaches quiz-ready while earlier topics of the session's chapter are
\* uncompleted.
C7_TopicsSequential ==
    \A s \in SessionKeys :
        Acted("completeTopic", s)
        => /\ (/\ ChapterExists(last.input.chapterNumber)
               /\ last.input.topicNumber < TopicCount(last.input.chapterNumber))
              => /\ Post(s).currentTopic = Pre(s).currentTopic + 1
                 /\ (Pre(s).learningPhase = "learning" => Post(s).learningPhase = "learning")
                 /\ Post(s).messageCount = 0
           /\ Post(s).currentTopic <= Pre(s).currentTopic + 1
           /\ (Post(s).learningPhase = "quiz-ready" /\ Pre(s).learningPhase # "quiz-ready")
              => Pre(s).currentTopic >= TopicCount(Pre(s).currentChapter)

\* the state getLearningState creates for a file without StudentProgress
IsFresh(state) ==
    /\ state.learningPhase = "introduction"
    /\ state.currentChapter = 1
    /\ state.currentTopic = 1

\* C8 (as claimed): from the fresh state the first tutoring turn sets phase
\* learning and keeps chapter and topic; after a tutoring turn the phase is
\* never introduction.
C8_IntroductionSingleTurn ==
    \A s \in SessionKeys :
        Acted("updateLearningPhase", s)
        => /\ IsFresh(Pre(s))
              => /\ Post(s).learningPhase = "learning"
                 /\ Post(s).currentChapter = 1
                 /\ Post(s).currentTopic = 1
           /\ Post(s).learningPhase # "introduction"

GatedPhases == {"quiz-ready", "review"}

\* C9 (as claimed): once the phase is quiz-ready or review it changes only in
\* a submitQuizAnswers call, to introduction on a pass and to review on a fail.
C9_GatedPhasesLeftByQuizOnly ==
    \A s \in SessionKeys :
        (/\ s \in DOMAIN last.pre
         /\ s \in DOMAIN learningState
         /\ Pre(s).learningPhase \in GatedPhases
         /\ Post(s).learningPhase # Pre(s).learningPhase)
        => /\ Acted("submitQuizAnswers", s)
           /\ Post(s).learningPhase = IF last.result.passed THEN "introduction" ELSE "review"

\* the fields the claim compares after a pass
PassOutcome(state) ==
    [learningPhase     |-> state.learningPhase,
     currentChapter    |-> state.currentChapter,
     currentTopic      |-> state.currentTopic,
     needsReview       |-> state.needsReview,
     messageCount      |-> state.messageCount,
     chaptersCompleted |-> state.chaptersCompleted,
     quizzesPassed     |-> state.quizzesPassed]

\* the states that agree with state on everything but phase (review or
\* quiz-ready), needsReview and reviewTopics
Twins(state) ==
    {[state EXCEPT !.learningPhase = p, !.needsReview = n, !.reviewTopics = r] :
        p \in GatedPhases, n \in BOOLEAN, r \in {<<>>, <<"drag">>, state.reviewTopics}}

\* C10: a passing submitQuizAnswers from review and the same call from
\* quiz-ready, on states that otherwise agree, give the same phase,
\* currentChapter, currentTopic, needsReview, messageCount, chaptersCompleted
\* and quizzesPassed.
C10_PassSameFromReviewAndQuizReady ==
    \A s \in SessionKeys :
        (/\ Acted("submitQuizAnswers", s)
         /\ last.result.passed
         /\ Pre(s).learningPhase \in GatedPhases)
        => \A twin \in Twins(Pre(s)) :
              PassOutcome(Post(s)) = PassOutcome(PassUpdate(twin, last.input.chapterNumber))

C10_Witness ==
    \E s \in SessionKeys :
        /\ Acted("submitQuizAnswers", s)
        /\ last.result.passed
        /\ Pre(s).learningPhase = "review"
        /\ Pre(s).needsReview
        /\ Pre(s).reviewTopics # <<>>
        /\ Post(s).learningPhase = "introduction"

\* C11: getLearningState creates the LearningState of a session key that has
\* none, seeded from the file's StudentProgress (its chapter and topic, phase
\* learning) when there is one and fresh (chapter 1, topic 1, introduction,
\* messageCount 0) otherwise; for a key that has a state it changes nothing.
C11_SessionBootstrapping ==
    last.op = "getLearningState"
    => LET s == last.sessionKey
       IN  /\ s \in DOMAIN learningState
           /\ s \in DOMAIN last.pre => learningState = last.pre
           /\ s \notin DOMAIN last.pre
              => LET f == Post(s).fileId
                 IN  /\ DOMAIN learningState = DOMAIN last.pre \cup {s}
                     /\ Post(s).messageCount = 0
                     /\ IF f \in DOMAIN studentProgress
                        THEN /\ Post(s).currentChapter = studentProgress[f].currentChapter
                             /\ Post(s).currentTopic = studentProgress[f].currentTopic
                             /\ Post(s).learningPhase = "learning"
                        ELSE /\ Post(s).currentChapter = 1
                             /\ Post(s).currentTopic = 1
                             /\ Post(s).learningPhase = "introduction"

C11_Witness ==
    /\ last.op = "getLearningState"
    /\ last.sessionKey \notin DOMAIN last.pre
    /\ Post(last.sessionKey).fileId \in DOMAIN studentProgress
    /\ Post(last.sessionKey).currentChapter = 2
    /\ Post(last.sessionKey).currentTopic = 2
    /\ Post(last.sessionKey).learningPhase = "learning"

\* C14 (as claimed): applying the pass transition of the same attempt a second
\* time leaves the LearningState as it was after the first application.
C14_PassReplayIdempotent ==
    \A s \in SessionKeys :
        (Acted("submitQuizAnswers", s) /\ last.result.passed)
        => PassOutcome(PassUpdate(Post(s), last.input.chapterNumber)) = PassOutcome(Post(s))

\* answer i of the sheet names a stored question of the chapter
Matches(chapterNumber, answers, i) ==
    /\ ChapterExists(chapterNumber)
    /\ \E n \in 1..QuizSize : answers[i].questionId = QuestionId(chapterNumber, n)

\* C15: an answer whose questionId matches no stored question of the chapter
\* is graded isCorrect = false with correctAnswer unresolved and adds nothing
\* to the score; gradedAnswers has one entry per answer, in submission order.
C15_UnmatchedAnswerGradedWrong ==
    last.op = "submitQuizAnswers"
    => LET c       == last.input.chapterNumber
           answers == last.input.answers
           row     == quizAttempt[Len(quizAttempt)]
       IN  /\ Len(row.answers) = Len(answers)
           /\ \A i \in 1..Len(answers) :
                /\ row.answers[i].questionId = answers[i].questionId
                /\ row.answers[i].selectedAnswer = answers[i].selectedAnswer
                /\ ~Matches(c, answers, i)
                   => /\ row.answers[i].isCorrect = FALSE
                      /\ row.answers[i].correctAnswer = Undefined
           /\ row.score = Cardinality({i \in 1..Len(answers) :
                                          Matches(c, answers, i) /\ row.answers[i].isCorrect})
           /\ row.score = Cardinality(CorrectPositions(c, answers))

C15_Witness ==
    /\ last.op = "submitQuizAnswers"
    /\ Len(last.input.answers) >= 3
    /\ last.input.answers[2].questionId = UnknownQuestionId
    /\ Matches(last.input.chapterNumber, last.input.answers, 3)
    /\ quizAttempt[Len(quizAttempt)].answers[3].isCorrect
    /\ quizAttempt[Len(quizAttempt)].score = 2

\* the topics of the stored questions the sheet answers wrongly, by position
WrongTopicAt(chapterNumber, answers, i) ==
    LET n == CHOOSE n \in 1..QuizSize : answers[i].questionId = QuestionId(chapterNumber, n)
    IN  QuizQuestion(chapterNumber, n).topicCovered

WrongPositions(chapterNumber, answers) ==
    LET correct == CorrectPositions(chapterNumber, answers)
    IN  {i \in 1..Len(answers) : Matches(chapterNumber, answers, i) /\ i \notin correct}

\* C16: weakTopics lists the topicCovered of the wrongly answered questions,
\* each once, in order of first occurrence; a topic met only on correct
\* answers is not in it.
C16_WeakTopics ==
    last.op = "submitQuizAnswers"
    => LET c        == last.input.chapterNumber
           answers  == last.input.answers
           weak     == quizAttempt[Len(quizAttempt)].weakTopics
           wrong    == WrongPositions(c, answers)
           topicAt  == [i \in wrong |-> WrongTopicAt(c, answers, i)]
           topics   == {topicAt[i] : i \in wrong}
           first    == [t \in topics |->
                          CHOOSE i \in wrong :
                             topicAt[i] = t /\ \A j \in wrong : topicAt[j] = t => i <= j]
       IN  /\ {weak[k] : k \in 1..Len(weak)} = topics
           /\ \A k, l \in 1..Len(weak) :
                k < l => (weak[k] # weak[l] /\ first[weak[k]] < first[weak[l]])
           /\ last.result.weakTopics = weak

C16_Witness ==
    /\ last.op = "submitQuizAnswers"
    /\ quizAttempt[Len(quizAttempt)].weakTopics = <<"drag", "lift">>
    /\ Cardinality(WrongPositions(last.input.chapterNumber, last.input.answers)) = 3
    /\ 3 \in CorrectPositions(last.input.chapterNumber, last.input.answers)

\* C12: LearningState updates are serialized per session key: every
\* updateLearningPhase call with incrementMessageCount = true that has
\* completed raised the stored messageCount by exactly one (the count it
\* wrote is one more than the count its update replaced), so no increment
\* of concurrent calls is lost and a concurrent completeTopic reset is not
\* overwritten by a stale count.
C12_IncrementsSerialized ==
    \A p \in Clients :
        ( /\ calls[p].op = "updateLearningPhase"
          /\ calls[p].input.incrementMessageCount
          /\ calls[p].pc = "done"
          /\ ~calls[p].threw )
        => calls[p].messageCount = calls[p].overwrote + 1

\* the pass/fail transition that matches the QuizAttempt row of client p
MatchingTransition(p) ==
    IF calls[p].attempt = 0 THEN "unrecorded"
    ELSE IF quizAttempt[calls[p].attempt].passed THEN "pass" ELSE "fail"

\* C13: QuizAttempt creation and the LearningState transition form one
\* logical operation: a quiz transition is applied to a LearningState only
\* after the QuizAttempt of the same submission has been recorded, a
\* submission that returns without an error has applied the transition that
\* matches its QuizAttempt, and every recorded QuizAttempt is eventually
\* followed by that transition or by an error reported to the caller (as for
\* a session key that has no LearningState).
C13_AttemptThenTransition ==
    /\ [](\A p \in Clients :
            /\ calls[p].applied \in {"pass", "fail"}
               => /\ calls[p].attempt > 0
                  /\ quizAttempt[calls[p].attempt].sessionKey = calls[p].sessionKey
                  /\ calls[p].applied = MatchingTransition(p)
            /\ (calls[p].op = "submitQuizAnswers" /\ calls[p].pc = "done" /\ ~calls[p].threw)
               => /\ calls[p].attempt > 0
                  /\ calls[p].applied = MatchingTransition(p))
    /\ \A p \in Clients :
         (calls[p].attempt > 0)
            ~> (calls[p].threw \/ calls[p].applied = MatchingTransition(p))

\* a submission of a passed quiz has recorded its attempt and moved the
\* session to the next chapter, and another one for the same session is done
C13_Witness ==
    \E p \in Clients :
        /\ calls[p].op = "submitQuizAnswers" /\ calls[p].pc = "done"
        /\ calls[p].attempt > 0
        /\ quizAttempt[calls[p].attempt].passed
        /\ calls[p].applied = "pass"
        /\ \E q \in Clients \ {p} :
             calls[q].op = "submitQuizAnswers" /\ calls[q].pc = "done"

\* C17: chapter renumbering: the chapter list returned by
\* extractChaptersFromText / extractChaptersFromPDF, in its returned order,
\* has chapterNumber = 1, 2, ..., N, whatever numbers the text prints.
C17_ChaptersRenumbered ==
    extractor.extracted
    => \A i \in 1..Len(extractor.chapters) : extractor.chapters[i].chapterNumber = i

\* C18: chapter boundaries are contiguous: every chapter ends one character
\* before the next one starts, and the last chapter ends at the length of
\* the text.
C18_BoundariesContiguous ==
    extractor.extracted
    => LET chapters == extractor.chapters
           n        == Len(chapters)
       IN  /\ \A i \in 1..(n - 1) : chapters[i].endIndex + 1 = chapters[i + 1].startIndex
           /\ n > 0 => chapters[n].endIndex = TextLength(extractor.pdfText)

\* three chapters taken from a table of contents, not all starting at the
\* same offset
C18_Witness ==
    /\ extractor.extracted
    /\ Len(extractor.toc) > TocMinChapters
    /\ Len(extractor.chapters) = Len(extractor.toc)
    /\ \E i \in 1..(Len(extractor.chapters) - 1) :
         extractor.chapters[i].startIndex < extractor.chapters[i + 1].startIndex

\* C19: every entry the table-of-contents parser returns (line by line or
\* from a one-line table) has a page p with 1 <= p <= totalPages, the number
\* of pages the page index derives from the text; a line whose page is
\* outside this range yields no entry.
C19_TocPagesInDocument ==
    extractor.extracted
    => \A i \in 1..Len(extractor.toc) :
          /\ 1 <= extractor.toc[i].startPage
          /\ extractor.toc[i].startPage <= TotalPages(extractor.pageBreaks)

\* C20: getPageNumber is total: for every text and every offset from 0 to
\* the length of the text it returns a page from 1 to totalPages, and the
\* page does not decrease as the offset grows.
C20_PageForOffsetTotal ==
    extractor.extracted
    => LET pageBreaks == extractor.pageBreaks
           page       == [o \in 0..TextLength(extractor.pdfText) |->
                             GetPageNumber(pageBreaks, o)]
       IN  \A o \in DOMAIN page :
              /\ page[o] \in 1..TotalPages(pageBreaks)
              /\ o > 0 => page[o - 1] <= page[o]

\* a text with OCR page markers whose last offset lies on its third page
C20_Witness ==
    /\ extractor.extracted
    /\ \E k \in 1..Len(extractor.pdfText) : extractor.pdfText[k].kind = "pageMarker"
    /\ TotalPages(extractor.pageBreaks) = MaxLines
    /\ GetPageNumber(extractor.pageBreaks, TextLength(extractor.pdfText)) = MaxLines

\* C21: chapter page and offset ranges are well formed: every assembled
\* chapter has 1 <= startPage <= endPage and startIndex <= endIndex, and a
\* chapter's endPage is at most the next chapter's startPage, also when two
\* table-of-contents entries name the same page.
C21_RangesWellFormed ==
    extractor.extracted
    => LET chapters == extractor.chapters
           n        == Len(chapters)
       IN  /\ \A i \in 1..n :
                /\ 1 <= chapters[i].startPage
                /\ chapters[i].startPage <= chapters[i].endPage
                /\ chapters[i].startIndex <= chapters[i].endIndex
           /\ \A i \in 1..(n - 1) : chapters[i].endPage <= chapters[i + 1].startPage

\* C30: the ranges from which extractChapterContent takes the chapters'
\* contents partition the text from the first chapter's startIndex to the
\* end of the document: every offset of that span lies in exactly one range.
C30_ContentsPartitionText ==
    (extractor.extracted /\ Len(extractor.chapters) > 0)
    => LET text     == extractor.pdfText
           chapters == extractor.chapters
       IN  \A o \in chapters[1].startIndex..(TextLength(text) - 1) :
              Cardinality({i \in 1..Len(chapters) :
                             o \in ExtractChapterContent(text, chapters[i])}) = 1

\* C22: phase domain: in every reachable LearningState, after any calls of
\* getLearningState, updateLearningPhase, completeTopic and submitQuizAnswers
\* with arbitrary client inputs, the phase is one of introduction, learning,
\* review, quiz-ready.
C22_PhaseInDomain ==
    \A s \in DOMAIN learningState : learningState[s].learningPhase \in Phases

\* the list as a set
Range(list) == {list[i] : i \in 1..Len(list)}

\* C24: unlock invariant: in every reachable LearningState every chapter
\* number below currentChapter is contained in quizzesPassed.
C24_PredecessorsPassed ==
    \A s \in DOMAIN learningState :
        \A c \in 1..(learningState[s].currentChapter - 1) :
            c \in Range(learningState[s].quizzesPassed)

\* C29: lazy creation is race-free: after two concurrent getLearningState
\* calls with the same unseen session key exactly one LearningState exists
\* for the key and both calls have returned it without an error.
C29_LazyCreationRaceFree ==
    \A p, q \in Clients :
        (/\ p # q
         /\ calls[p].op = "getLearningState" /\ calls[p].pc = "done"
         /\ calls[q].op = "getLearningState" /\ calls[q].pc = "done"
         /\ calls[p].sessionKey = calls[q].sessionKey
         /\ ~calls[p].found /\ ~calls[q].found)
        => /\ calls[p].sessionKey \in DOMAIN learningState
           /\ ~calls[p].threw /\ ~calls[q].threw

\* two finished completeTopic requests with the same input and nothing else
\* sent
DuplicateCompletions(p, q) ==
    /\ p # q
    /\ calls[p].op = "completeTopic" /\ calls[p].pc = "done"
    /\ calls[q].op = "completeTopic" /\ calls[q].pc = "done"
    /\ calls[p].fileId = calls[q].fileId
    /\ calls[p].sessionKey = calls[q].sessionKey
    /\ calls[p].input = calls[q].input
    /\ \A r \in Clients \ {p, q} : calls[r].pc = "idle"

\* C26: duplicate topic completions are harmless: two completeTopic
\* requests with the same input, back to back or interleaved, leave the
\* session's currentTopic, phase and messageCount and the document's
\* completedTopics as one request would: the pointer is one past the
\* completed topic (or unchanged, with phase quiz-ready, on the last topic),
\* and the topic is listed once.
C26_DuplicateCompletionHarmless ==
    \A p, q \in Clients :
        DuplicateCompletions(p, q)
        => LET s     == calls[p].sessionKey
               c     == calls[p].input.chapterNumber
               t     == calls[p].input.topicNumber
               state == learningState[s]
           IN  /\ state.currentChapter = c
               /\ state.currentTopic = IF t < TopicCount(c) THEN t + 1 ELSE t
               /\ state.learningPhase = IF t < TopicCount(c) THEN "learning"
                                        ELSE "quiz-ready"
               /\ state.messageCount = 0
               /\ studentProgress[calls[p].fileId].completedTopics
                     = {TopicIdentifier(c, t)}

\* both duplicates looked for the StudentProgress row before either wrote it
C26_Witness ==
    \E p, q \in Clients :
        /\ DuplicateCompletions(p, q)
        /\ ~calls[p].found /\ ~calls[q].found
        /\ calls[p].applied = "next-topic"

\* the stored questions of the chapter that some answer of the sheet
\* answers correctly
QuestionsAnsweredCorrectly(c, answers) ==
    {i \in 1..QuizSize :
        \E k \in 1..Len(answers) :
            /\ answers[k].questionId = QuestionId(c, i)
            /\ answers[k].selectedAnswer = QuizQuestion(c, i).correctAnswer}

\* C25: each stored question counts at most once: for any submitted answer
\* list, also one that repeats a questionId, the score is at most the number
\* of different stored questions answered correctly, so a pass needs correct
\* answers to at least 6 different questions.
C25_QuestionCountsOnce ==
    last.op = "submitQuizAnswers"
    => LET different == Cardinality(QuestionsAnsweredCorrectly(last.input.chapterNumber,
                                                               last.input.answers))
       IN  /\ last.result.score <= different
           /\ last.result.passed => different >= PassThreshold

\* the table-of-contents entries among lines 2..(k - 1) of the text
EntriesBefore(text, k) ==
    Cardinality({j \in 2..(k - 1) : text[j].kind = "tocEntry"})

\* the lines at which the claimed rule stops: an end marker with at least 3
\* entries before it
MarkerStops(text) ==
    {k \in 2..Len(text) : text[k].kind = "endMarker" /\ EntriesBefore(text, k) >= 3}

\* C23: table-of-contents end-marker rule: the parser stops at the first line
\* starting with Glossary, Index or Appendix once at least 3 entries have
\* been accumulated, so no later line contributes an entry; with fewer than
\* 3 entries such a line does not stop the parsing.
C23_EndMarkerStops ==
    (extractor.extracted /\ Len(extractor.pdfText) > 0)
    => LET text  == extractor.pdfText
           stops == MarkerStops(text)
       IN  Len(extractor.toc) =
              IF stops = {} THEN EntriesBefore(text, Len(text) + 1)
              ELSE EntriesBefore(text, Min(stops))

\* the session's topic pointer lies in its chapter
TopicInRange(state) ==
    (ChapterExists(state.currentChapter) /\ TopicCount(state.currentChapter) >= 1)
    => (1 <= state.currentTopic /\ state.currentTopic <= TopicCount(state.currentChapter))

\* the last call created the LearningState of session s from the document's
\* StudentProgress
Bootstrapped(s) ==
    /\ last.op = "getLearningState" /\ last.sessionKey = s
    /\ s \notin DOMAIN last.pre /\ s \in DOMAIN learningState
    /\ learningState[s].fileId \in DOMAIN studentProgress

\* C27: the topic pointer stays in range: when clients pass the session's
\* own currentChapter and currentTopic to completeTopic, every LearningState
\* on an existing chapter with T >= 1 topics has 1 <= currentTopic <= T, and
\* a new session bootstrapped from StudentProgress resumes at the pointer of
\* the LearningState of the session that last updated that progress.
C27_TopicPointerInRange ==
    /\ \A s \in DOMAIN learningState : TopicInRange(learningState[s])
    /\ \A s \in DOMAIN learningState :
         Bootstrapped(s)
         => \A o \in DOMAIN last.pre :
               /\ learningState[s].currentChapter = learningState[o].currentChapter
               /\ learningState[s].currentTopic = learningState[o].currentTopic

\* the student has passed every chapter of the document
AllChaptersPassed ==
    /\ Student \in DOMAIN learningState
    /\ learningState[Student].currentChapter = NumChapters + 1
    /\ \A c \in 1..NumChapters : c \in Range(learningState[Student].quizzesPassed)

\* the student is on chapter c
OnChapter(c) ==
    Student \in DOMAIN learningState /\ learningState[Student].currentChapter = c

====
